---- MODULE Spec2Model ----
(***************************************************************************)
(* A model of the register virtual machine of src/main.rs: the register   *)
(* file, program counter, comparison flag and instruction store of        *)
(* RegisterVM, and its operations new, load_program, fetch, execute and   *)
(* run.                                                                    *)
(*                                                                         *)
(* An i64 is modelled at its full width as the sequence of its eight      *)
(* two's-complement bytes, least significant first (i64::to_le_bytes).    *)
(* Exact results are computed on sixteen bytes, wide enough for any sum,  *)
(* difference, product or quotient of two i64 values, and then narrowed.  *)
(***************************************************************************)
EXTENDS Integers, Sequences, FiniteSets, TLC

(***************************************************************************)
(* Widths.                                                                 *)
(***************************************************************************)
I64Bytes == 8

WideBytes == 2 * I64Bytes

NumRegisters == 10

(***************************************************************************)
(* Two's-complement byte arithmetic.  The operations are functions, so    *)
(* that each is applied to the values of its operands.                    *)
(***************************************************************************)
Bytes == Seq(0..255)

RECURSIVE ToBytes(_, _)
ToBytes(n, k) ==
    IF k = 0 THEN <<>> ELSE <<n % 256>> \o ToBytes(n \div 256, k - 1)

\* The i64 whose value is the (small) integer n.
I64(n) == ToBytes(n, I64Bytes)

I64_MIN == <<0, 0, 0, 0, 0, 0, 0, 128>>

I64_MAX == <<255, 255, 255, 255, 255, 255, 255, 127>>

IsNeg[a \in Bytes] == a[Len(a)] >= 128

\* An i64 as an exact value: sign-extended to WideBytes bytes.
Widen[a \in Bytes] ==
    a \o [i \in 1..(WideBytes - Len(a)) |-> IF IsNeg[a] THEN 255 ELSE 0]

\* The low I64Bytes bytes of an exact value: its reduction modulo 2^64.
Narrow[w \in Bytes] == SubSeq(w, 1, I64Bytes)

\* Does the exact value w lie in the i64 range?
FitsI64[w \in Bytes] == Widen[Narrow[w]] = w

AddBytes[a \in Bytes, b \in Bytes, carry \in 0..1] ==
    IF a = <<>> THEN <<>>
    ELSE <<(Head(a) + Head(b) + carry) % 256>>
           \o AddBytes[Tail(a), Tail(b), (Head(a) + Head(b) + carry) \div 256]

NotBytes[a \in Bytes] == [i \in 1..Len(a) |-> 255 - a[i]]

WZero == [i \in 1..WideBytes |-> 0]

WOne == [i \in 1..WideBytes |-> IF i = 1 THEN 1 ELSE 0]

WAdd[a \in Bytes, b \in Bytes] == AddBytes[a, b, 0]

WSub[a \in Bytes, b \in Bytes] == AddBytes[a, NotBytes[b], 1]

WNeg[a \in Bytes] == WSub[WZero, a]

WLt[a \in Bytes, b \in Bytes] == IsNeg[WSub[a, b]]

WAbs[a \in Bytes] == IF IsNeg[a] THEN WNeg[a] ELSE a

\* The sum of the products a[i] * b[k + 1 - i] for i in from..k.
ColumnSum[a \in Bytes, b \in Bytes, k \in Nat, from \in Nat] ==
    IF from > k THEN 0
    ELSE a[from] * b[k + 1 - from] + ColumnSum[a, b, k, from + 1]

MulBytes[a \in Bytes, b \in Bytes, k \in Nat, carry \in Nat] ==
    IF k > Len(a) THEN <<>>
    ELSE <<(ColumnSum[a, b, k, 1] + carry) % 256>>
           \o MulBytes[a, b, k + 1, (ColumnSum[a, b, k, 1] + carry) \div 256]

WMul[a \in Bytes, b \in Bytes] == MulBytes[a, b, 1, 0]

\* From the quotient and remainder qr of n by 2d, those of n by d.
DivStep[qr \in Seq(Bytes), d \in Bytes] ==
    IF WLt[qr[2], d] THEN <<WAdd[qr[1], qr[1]], qr[2]>>
    ELSE <<WAdd[WAdd[qr[1], qr[1]], WOne], WSub[qr[2], d]>>

\* Quotient and remainder of n by d, for n >= 0 and d > 0.
WDivMod[n \in Bytes, d \in Bytes] ==
    IF WLt[n, d] THEN <<WZero, n>> ELSE DivStep[WDivMod[n, WAdd[d, d]], d]

\* The quotient rounded toward zero, for d # 0.
WDivTrunc[n \in Bytes, d \in Bytes] ==
    IF IsNeg[n] = IsNeg[d]
    THEN WDivMod[WAbs[n], WAbs[d]][1]
    ELSE WNeg[WDivMod[WAbs[n], WAbs[d]][1]]

(***************************************************************************)
(* Operands, instructions, errors and results.                            *)
(***************************************************************************)
Register(reg) == [kind |-> "Register", reg |-> reg]

Immediate(value) == [kind |-> "Immediate", value |-> value]

Mov(dest, src) == [op |-> "Mov", dest |-> dest, src |-> src]

Add(dest, src) == [op |-> "Add", dest |-> dest, src |-> src]

Sub(dest, src) == [op |-> "Sub", dest |-> dest, src |-> src]

Mul(dest, src) == [op |-> "Mul", dest |-> dest, src |-> src]

Div(dest, src) == [op |-> "Div", dest |-> dest, src |-> src]

Cmp(reg1, src) == [op |-> "Cmp", dest |-> reg1, src |-> src]

Jmp(addr) == [op |-> "Jmp", addr |-> addr]

Je(addr) == [op |-> "Je", addr |-> addr]

Jne(addr) == [op |-> "Jne", addr |-> addr]

Jg(addr) == [op |-> "Jg", addr |-> addr]

Jl(addr) == [op |-> "Jl", addr |-> addr]

Halt == [op |-> "Halt"]

VMError == {"InvalidRegister", "DivisionByZero", "InvalidProgramCounter"}

Ok(value) == [tag |-> "Ok", value |-> value]

Err(error) == [tag |-> "Err", error |-> error]

NoResult == [tag |-> "None"]

(***************************************************************************)
(* The state: the four fields of RegisterVM, the build's overflow-checks  *)
(* setting (on in a debug build, off in a release build), where the       *)
(* caller stands (ctl), the argument of the last load_program call        *)
(* (loaded) and what the last run() returned (result).  Two more record   *)
(* the history of the run in progress or last ended: whether it was       *)
(* called with no load_program since the run before it ended (resumed),   *)
(* and how many instructions it has executed, counted up to MaxSteps      *)
(* (executed).                                                             *)
(***************************************************************************)
VARIABLES registers, pc, cmp_flag, memory, overflow_checks, ctl, loaded, result,
          resumed, executed

vars ==
    <<registers, pc, cmp_flag, memory, overflow_checks, ctl, loaded, result,
      resumed, executed>>

MaxSteps == 30

(***************************************************************************)
(* Primitive arithmetic as rustc compiles it: an out-of-range result      *)
(* panics when overflow checks are on and wraps when they are off; the    *)
(* overflow of a division, and a division by zero, panic in every build.  *)
(***************************************************************************)
Value(v) == [panic |-> FALSE, value |-> v]

Panic == [panic |-> TRUE]

Checked(w) ==
    IF FitsI64[w] \/ ~overflow_checks THEN Value(Narrow[w]) ELSE Panic

i64_add(a, b) == Checked(WAdd[Widen[a], Widen[b]])

i64_sub(a, b) == Checked(WSub[Widen[a], Widen[b]])

i64_mul(a, b) == Checked(WMul[Widen[a], Widen[b]])

\* Faulty variant: the quotient is rounded toward negative infinity.
i64_div_floor(a, b) ==
    IF b = I64(0) THEN Panic
    ELSE LET q == WDivTrunc[Widen[a], Widen[b]]
             floor == IF WMul[q, Widen[b]] # Widen[a] /\ IsNeg[a] # IsNeg[b]
                      THEN WSub[q, WOne] ELSE q
         IN  IF FitsI64[floor] THEN Value(Narrow[floor]) ELSE Panic

i64_div(a, b) ==
    IF b = I64(0) THEN Panic
    ELSE IF FitsI64[WDivTrunc[Widen[a], Widen[b]]]
         THEN Value(Narrow[WDivTrunc[Widen[a], Widen[b]]])
         ELSE Panic

i64_gt(a, b) == WLt[Widen[b], Widen[a]]

\* `x as i8` for an i64 x: the low byte, read as a signed byte.
i64_as_i8(a) == IF a[1] >= 128 THEN a[1] - 256 ELSE a[1]

\* `b as i8` for a bool b.
bool_as_i8(b) == IF b THEN 1 ELSE 0

i8_sub(x, y) ==
    LET d == x - y
    IN  IF (-128 <= d /\ d <= 127) \/ ~overflow_checks
        THEN Value(((d + 128) % 256) - 128)
        ELSE Panic

(***************************************************************************)
(* RegisterVM::get_operand_value                                           *)
(***************************************************************************)
\* Faulty variant: a register index out of range reads as 0.
get_operand_value_lenient(operand) ==
    IF operand.kind = "Register"
    THEN IF operand.reg < NumRegisters
         THEN Ok(registers[operand.reg])
         ELSE Ok(I64(0))
    ELSE Ok(operand.value)

get_operand_value(operand) ==
    IF operand.kind = "Register"
    THEN IF operand.reg < NumRegisters
         THEN Ok(registers[operand.reg])
         ELSE Err("InvalidRegister")
    ELSE Ok(operand.value)

(***************************************************************************)
(* RegisterVM::execute.  Each handler yields the fields execute leaves    *)
(* behind and how it ends: "Continue" for Ok(true), "Halt" for Ok(false), *)
(* an error of VMError for Err, or "panic".  pc1 is the program counter   *)
(* that fetch has already advanced.                                        *)
(***************************************************************************)
Outcome(regs, p, flag, ret) ==
    [registers |-> regs, pc |-> p, cmp_flag |-> flag, ret |-> ret]

Return(ret, pc1) == Outcome(registers, pc1, cmp_flag, ret)

SetRegister(dest, v, pc1) ==
    IF v.panic THEN Return("panic", pc1)
    ELSE Outcome([registers EXCEPT ![dest] = v.value], pc1, cmp_flag, "Continue")

exec_Mov(dest, src, pc1) ==
    IF dest >= NumRegisters THEN Return("InvalidRegister", pc1)
    ELSE LET v == get_operand_value(src)
         IN  IF v.tag = "Err" THEN Return(v.error, pc1)
             ELSE SetRegister(dest, Value(v.value), pc1)

exec_Add(dest, src, pc1) ==
    IF dest >= NumRegisters THEN Return("InvalidRegister", pc1)
    ELSE LET v == get_operand_value(src)
         IN  IF v.tag = "Err" THEN Return(v.error, pc1)
             ELSE SetRegister(dest, i64_add(registers[dest], v.value), pc1)

\* Faulty variant: the subtraction also leaves a flag, as a compare would.
exec_Sub_sets_flag(dest, src, pc1) ==
    IF dest >= NumRegisters THEN Return("InvalidRegister", pc1)
    ELSE LET v == get_operand_value(src)
             d == i64_sub(registers[dest], v.value)
         IN  IF v.tag = "Err" THEN Return(v.error, pc1)
             ELSE IF d.panic THEN Return("panic", pc1)
             ELSE Outcome([registers EXCEPT ![dest] = d.value], pc1,
                          IF d.value = I64(0) THEN 0 ELSE 1, "Continue")

exec_Sub(dest, src, pc1) ==
    IF dest >= NumRegisters THEN Return("InvalidRegister", pc1)
    ELSE LET v == get_operand_value(src)
         IN  IF v.tag = "Err" THEN Return(v.error, pc1)
             ELSE SetRegister(dest, i64_sub(registers[dest], v.value), pc1)

exec_Mul(dest, src, pc1) ==
    IF dest >= NumRegisters THEN Return("InvalidRegister", pc1)
    ELSE LET v == get_operand_value(src)
         IN  IF v.tag = "Err" THEN Return(v.error, pc1)
             ELSE SetRegister(dest, i64_mul(registers[dest], v.value), pc1)

\* Faulty variant: the divisor is not tested for zero.
exec_Div_unchecked(dest, src, pc1) ==
    IF dest >= NumRegisters THEN Return("InvalidRegister", pc1)
    ELSE LET divisor == get_operand_value(src)
         IN  IF divisor.tag = "Err" THEN Return(divisor.error, pc1)
             ELSE SetRegister(dest, i64_div(registers[dest], divisor.value), pc1)

\* Faulty variant: the divisor is resolved and tested before the
\* destination index.
exec_Div_source_first(dest, src, pc1) ==
    LET divisor == get_operand_value(src)
    IN  IF divisor.tag = "Err" THEN Return(divisor.error, pc1)
        ELSE IF divisor.value = I64(0) THEN Return("DivisionByZero", pc1)
        ELSE IF dest >= NumRegisters THEN Return("InvalidRegister", pc1)
        ELSE SetRegister(dest, i64_div(registers[dest], divisor.value), pc1)

exec_Div(dest, src, pc1) ==
    IF dest >= NumRegisters THEN Return("InvalidRegister", pc1)
    ELSE LET divisor == get_operand_value(src)
         IN  IF divisor.tag = "Err" THEN Return(divisor.error, pc1)
             ELSE IF divisor.value = I64(0) THEN Return("DivisionByZero", pc1)
             ELSE SetRegister(dest, i64_div(registers[dest], divisor.value), pc1)

\* (val1 > val2) as i8 - (val1 - val2) as i8
cmp_flag_expr(val1, val2) ==
    LET diff == i64_sub(val1, val2)
    IN  IF diff.panic THEN Panic
        ELSE i8_sub(bool_as_i8(i64_gt(val1, val2)), i64_as_i8(diff.value))

exec_Cmp(reg1, src, pc1) ==
    IF reg1 >= NumRegisters THEN Return("InvalidRegister", pc1)
    ELSE LET val1 == registers[reg1]
             val2 == get_operand_value(src)
         IN  IF val2.tag = "Err" THEN Return(val2.error, pc1)
             ELSE LET flag == cmp_flag_expr(val1, val2.value)
                  IN  IF flag.panic THEN Return("panic", pc1)
                      ELSE Outcome(registers, pc1, flag.value, "Continue")

\* Faulty variant: the target may be one past the end of the store.
exec_Jmp_off_by_one(addr, pc1) ==
    IF addr > Len(memory) THEN Return("InvalidProgramCounter", pc1)
    ELSE Outcome(registers, addr, cmp_flag, "Continue")

\* Faulty variant: the target is assigned before it is validated.
exec_Jmp_assign_first(addr, pc1) ==
    IF addr >= Len(memory)
    THEN Outcome(registers, addr, cmp_flag, "InvalidProgramCounter")
    ELSE Outcome(registers, addr, cmp_flag, "Continue")

\* Faulty variant: the target is counted from the next instruction.
exec_Jmp_relative(addr, pc1) ==
    IF pc1 + addr >= Len(memory) THEN Return("InvalidProgramCounter", pc1)
    ELSE Outcome(registers, pc1 + addr, cmp_flag, "Continue")

exec_Jmp(addr, pc1) ==
    IF addr >= Len(memory) THEN Return("InvalidProgramCounter", pc1)
    ELSE Outcome(registers, addr, cmp_flag, "Continue")

\* Faulty variant: the predicate is inverted.
exec_Je_inverted(addr, pc1) ==
    IF cmp_flag # 0
    THEN IF addr >= Len(memory) THEN Return("InvalidProgramCounter", pc1)
         ELSE Outcome(registers, addr, cmp_flag, "Continue")
    ELSE Return("Continue", pc1)

exec_Je(addr, pc1) ==
    IF cmp_flag = 0
    THEN IF addr >= Len(memory) THEN Return("InvalidProgramCounter", pc1)
         ELSE Outcome(registers, addr, cmp_flag, "Continue")
    ELSE Return("Continue", pc1)

\* Faulty variant: the target is validated before the predicate is tested.
exec_Jne_eager(addr, pc1) ==
    IF addr >= Len(memory) THEN Return("InvalidProgramCounter", pc1)
    ELSE IF cmp_flag # 0 THEN Outcome(registers, addr, cmp_flag, "Continue")
    ELSE Return("Continue", pc1)

exec_Jne(addr, pc1) ==
    IF cmp_flag # 0
    THEN IF addr >= Len(memory) THEN Return("InvalidProgramCounter", pc1)
         ELSE Outcome(registers, addr, cmp_flag, "Continue")
    ELSE Return("Continue", pc1)

exec_Jg(addr, pc1) ==
    IF cmp_flag > 0
    THEN IF addr >= Len(memory) THEN Return("InvalidProgramCounter", pc1)
         ELSE Outcome(registers, addr, cmp_flag, "Continue")
    ELSE Return("Continue", pc1)

exec_Jl(addr, pc1) ==
    IF cmp_flag < 0
    THEN IF addr >= Len(memory) THEN Return("InvalidProgramCounter", pc1)
         ELSE Outcome(registers, addr, cmp_flag, "Continue")
    ELSE Return("Continue", pc1)

\* Faulty variant: HALT is passed over like an instruction without effect.
exec_Halt_continue(pc1) == Return("Continue", pc1)

exec_Halt(pc1) == Return("Halt", pc1)

execute(instruction, pc1) ==
    CASE instruction.op = "Mov" -> exec_Mov(instruction.dest, instruction.src, pc1)
      [] instruction.op = "Add" -> exec_Add(instruction.dest, instruction.src, pc1)
      [] instruction.op = "Sub" -> exec_Sub(instruction.dest, instruction.src, pc1)
      [] instruction.op = "Mul" -> exec_Mul(instruction.dest, instruction.src, pc1)
      [] instruction.op = "Div" -> exec_Div(instruction.dest, instruction.src, pc1)
      [] instruction.op = "Cmp" -> exec_Cmp(instruction.dest, instruction.src, pc1)
      [] instruction.op = "Jmp" -> exec_Jmp(instruction.addr, pc1)
      [] instruction.op = "Je" -> exec_Je(instruction.addr, pc1)
      [] instruction.op = "Jne" -> exec_Jne(instruction.addr, pc1)
      [] instruction.op = "Jg" -> exec_Jg(instruction.addr, pc1)
      [] instruction.op = "Jl" -> exec_Jl(instruction.addr, pc1)
      [] instruction.op = "Halt" -> exec_Halt(pc1)

(***************************************************************************)
(* RegisterVM::new                                                         *)
(***************************************************************************)
new ==
    /\ registers = [i \in 0..(NumRegisters - 1) |-> I64(0)]
    /\ pc = 0
    /\ cmp_flag = 0
    /\ memory = <<>>

Init ==
    /\ new
    /\ overflow_checks \in BOOLEAN
    /\ ctl = "new"
    /\ loaded = <<>>
    /\ result = NoResult
    /\ resumed = FALSE
    /\ executed = 0

\* No call of the VM is in progress: the caller may make one.
AtRest == ctl \in {"new", "loaded", "returned"}

\* Faulty variant of load_program: the program counter is not reset.
load_program_keep_pc(program) ==
    /\ AtRest
    /\ memory' = program
    /\ ctl' = "loaded"
    /\ loaded' = program
    /\ resumed' = FALSE
    /\ executed' = 0
    /\ UNCHANGED <<registers, pc, cmp_flag, overflow_checks, result>>

\* Faulty variant of load_program: the registers and the flag are reset too.
load_program_reset(program) ==
    /\ AtRest
    /\ memory' = program
    /\ pc' = 0
    /\ registers' = [i \in 0..(NumRegisters - 1) |-> I64(0)]
    /\ cmp_flag' = 0
    /\ ctl' = "loaded"
    /\ loaded' = program
    /\ resumed' = FALSE
    /\ executed' = 0
    /\ UNCHANGED <<overflow_checks, result>>

(***************************************************************************)
(* RegisterVM::load_program                                                *)
(***************************************************************************)
load_program(program) ==
    /\ AtRest
    /\ memory' = program
    /\ pc' = 0
    /\ ctl' = "loaded"
    /\ loaded' = program
    /\ resumed' = FALSE
    /\ executed' = 0
    /\ UNCHANGED <<registers, cmp_flag, overflow_checks, result>>

(***************************************************************************)
(* RegisterVM::run: the call, and one turn of its loop (a fetch and the   *)
(* execution of what was fetched, or the return).                          *)
(***************************************************************************)
run_call ==
    /\ AtRest
    /\ ctl' = "running"
    /\ result' = NoResult
    /\ resumed' = (ctl = "returned")
    /\ executed' = 0
    /\ UNCHANGED <<registers, pc, cmp_flag, memory, overflow_checks, loaded>>

\* Faulty variant of run_return: register 1 is returned.
run_return_r1 == Ok(registers[1])

\* What run() returns when its loop breaks.
run_return == Ok(registers[0])

\* RegisterVM::fetch: the instruction at pc, if there is one, and the
\* program counter fetch leaves.
\* Faulty variant: pc is not advanced.
fetch_no_advance ==
    IF pc < Len(memory)
    THEN [some |-> TRUE, instruction |-> memory[pc + 1], pc |-> pc]
    ELSE [some |-> FALSE, pc |-> pc]

fetch ==
    IF pc < Len(memory)
    THEN [some |-> TRUE, instruction |-> memory[pc + 1], pc |-> pc + 1]
    ELSE [some |-> FALSE, pc |-> pc]

run_loop ==
    /\ ctl = "running"
    /\ LET f == fetch
       IN  IF f.some
           THEN LET o == execute(f.instruction, f.pc)
                IN  /\ registers' = o.registers
                    /\ pc' = o.pc
                    /\ cmp_flag' = o.cmp_flag
                    /\ ctl' = CASE o.ret = "Continue" -> "running"
                                [] o.ret = "panic" -> "panicked"
                                [] OTHER -> "returned"
                    /\ result' = CASE o.ret = "Continue" -> result
                                   [] o.ret = "panic" -> result
                                   [] o.ret = "Halt" -> run_return
                                   [] OTHER -> Err(o.ret)
                    /\ executed' = IF executed < MaxSteps THEN executed + 1
                                                           ELSE executed
           ELSE /\ ctl' = "returned"
                /\ result' = run_return
                /\ pc' = f.pc
                /\ UNCHANGED <<registers, cmp_flag, executed>>
    /\ UNCHANGED <<memory, overflow_checks, loaded, resumed>>

(***************************************************************************)
(* The programs the VM is given.                                           *)
(***************************************************************************)
\* main's factorial_program
factorial_program ==
    << Mov(0, Immediate(I64(5))),
       Mov(1, Immediate(I64(1))),
       Cmp(0, Immediate(I64(0))),
       Je(7),
       Mul(1, Register(0)),
       Sub(0, Immediate(I64(1))),
       Jmp(2),
       Mov(0, Register(1)),
       Halt >>

MoveAndHalt == << Mov(0, Immediate(I64(42))), Halt >>

DivideByZero ==
    << Mov(0, Immediate(I64(10))), Mov(1, Immediate(I64(0))), Div(0, Register(1)) >>

BadRegister == << Mov(10, Immediate(I64(1))) >>

ConditionalSkip ==
    << Mov(0, Immediate(I64(1))),
       Cmp(0, Immediate(I64(1))),
       Jne(99),
       Mov(0, Immediate(I64(7))),
       Halt >>

JumpForever == << Jmp(0) >>

\* Programs that start from the registers and the flag an earlier run left.
CompareLeft == << Cmp(0, Register(1)) >>

CompareLeftBack == << Cmp(1, Register(0)), Halt, Mov(0, Immediate(I64(3))) >>

BranchOnLeft(jump) == << jump, Mov(0, Immediate(I64(3))), Halt >>

SamplePrograms ==
    { <<>>, <<Halt>>, factorial_program, MoveAndHalt, DivideByZero,
      BadRegister, ConditionalSkip, JumpForever, CompareLeft, CompareLeftBack }
    \cup { BranchOnLeft(j) : j \in {Je(2), Jne(2), Jg(2), Jl(2), Jmp(2)} }
    \cup { BranchOnLeft(j) : j \in {Je(3), Jne(3), Jg(3), Jl(3), Jmp(3)} }

(***************************************************************************)
(* The specification: any sequence of load_program and run calls on the   *)
(* sample programs.                                                        *)
(***************************************************************************)
LoadSample == \E program \in SamplePrograms : load_program(program)

Next == LoadSample \/ run_call \/ run_loop

Spec == Init /\ [][Next]_vars

(***************************************************************************)
(* A second specification, for the instruction handlers: a new VM is      *)
(* given one program, as in main, and runs it.  The program is a sample,  *)
(* or sets registers 0 and 9 and then executes one instruction on them,   *)
(* or compares and then branches.                                          *)
(***************************************************************************)
MaxAddr == 6

Vals ==
    { I64(0), I64(1), I64(-1), I64(2), I64(-7), I64(128), I64(256),
      I64_MIN, I64_MAX }

RegIndices == {0, 9, 10}

TwoOperand(dest, src) ==
    { Mov(dest, src), Add(dest, src), Sub(dest, src), Mul(dest, src),
      Div(dest, src), Cmp(dest, src) }

Jumps(addr) == { Jmp(addr), Je(addr), Jne(addr), Jg(addr), Jl(addr) }

RegisterPrograms ==
    { << Mov(0, Immediate(x)), Mov(9, Immediate(y)), ins >> :
        x \in Vals, y \in Vals,
        ins \in UNION { TwoOperand(d, Register(r)) : d \in RegIndices, r \in RegIndices } }

ImmediatePrograms ==
    { << Mov(0, Immediate(x)), Mov(9, Immediate(x)), ins >> :
        x \in Vals,
        ins \in UNION { TwoOperand(d, Immediate(y)) : d \in RegIndices, y \in Vals } }

BranchPrograms ==
    { << Mov(0, Immediate(x)), Cmp(0, Immediate(y)), j,
         Mov(0, Immediate(I64(7))), Halt >> :
        x \in Vals, y \in {I64(0), I64(1)},
        j \in UNION { Jumps(addr) : addr \in 0..MaxAddr } }

\* Divisions of 7 and -7 by 2 and -2: the quotients that rounding toward
\* zero and rounding toward negative infinity tell apart.
DivisionPrograms ==
    { << Mov(0, Immediate(I64(n))), Div(0, Immediate(I64(d))) >> :
        n \in {7, -7}, d \in {2, -2} }

ExecPrograms ==
    SamplePrograms \cup RegisterPrograms \cup ImmediatePrograms
        \cup BranchPrograms \cup DivisionPrograms

LoadNew == ctl = "new" /\ \E program \in ExecPrograms : load_program(program)

NextExec == LoadNew \/ run_call \/ run_loop

ExecSpec == Init /\ [][NextExec]_vars

(***************************************************************************)
(* The loop of run keeps turning until it returns or panics.               *)
(***************************************************************************)
FairSpec == Spec /\ WF_vars(run_loop)

(***************************************************************************)
(* Vocabulary of the properties.                                           *)
(***************************************************************************)
\* run() is about to fetch an instruction with opcode op; Current is it.
Fetching(op) ==
    ctl = "running" /\ pc < Len(memory) /\ memory[pc + 1].op = op

Current == memory[pc + 1]

\* The instruction most recently fetched.
Last == memory[pc]

RegisterOps == {"Mov", "Add", "Sub", "Mul", "Div", "Cmp"}

ConditionalJumps == {"Je", "Jne", "Jg", "Jl"}

Resolves(src) == src.kind = "Immediate" \/ src.reg < 10

Val(src) == IF src.kind = "Immediate" THEN src.value ELSE registers[src.reg]

\* -1, 0 or 1 as a < b, a = b or a > b, for i64 values.
Compare(a, b) ==
    IF a = b THEN 0 ELSE IF WLt[Widen[a], Widen[b]] THEN -1 ELSE 1

Sign(n) == IF n < 0 THEN -1 ELSE IF n > 0 THEN 1 ELSE 0

JumpPredicate(op, flag) ==
    CASE op = "Je" -> flag = 0
      [] op = "Jne" -> flag # 0
      [] op = "Jg" -> flag > 0
      [] op = "Jl" -> flag < 0

(***************************************************************************)
(* C1: when run() returns Ok, the value returned is the value of register *)
(* 0 at that moment; on a new VM the empty program and [HALT] return 0    *)
(* and [MOV(0, Imm(42)), HALT] returns 42.                                 *)
(***************************************************************************)
C1_RunReturnsRegister0 ==
    /\ (ctl = "returned" /\ result.tag = "Ok") => result.value = registers[0]
    /\ (ctl = "returned" /\ memory \in {<<>>, <<Halt>>}) => result = Ok(I64(0))
    /\ (ctl = "returned" /\ memory = MoveAndHalt) => result = Ok(I64(42))

C1_Witness ==
    ctl = "returned" /\ memory = MoveAndHalt /\ result = Ok(I64(42))

(***************************************************************************)
(* C2: after CMP(a, b) executes successfully, the flag is negative iff    *)
(* registers[a] < val(b), zero iff they are equal and positive iff        *)
(* registers[a] > val(b).                                                  *)
(***************************************************************************)
C2_CmpFlagSign ==
    [][(Fetching("Cmp") /\ ctl' = "running")
         => Sign(cmp_flag') = Compare(registers[Current.dest], Val(Current.src))]_vars

(***************************************************************************)
(* C3: the factorial sample program reaches its HALT at index 8 without   *)
(* error, in finitely many steps, and run() returns 120.                   *)
(***************************************************************************)
C3_FactorialReturns120 ==
    /\ [](memory = factorial_program => ctl # "panicked")
    /\ []((memory = factorial_program /\ ctl = "returned")
            => (result = Ok(I64(120)) /\ pc = 9 /\ Last = Halt))
    /\ (memory = factorial_program /\ ctl = "running") ~> (ctl = "returned")

C3_Witness ==
    /\ memory = factorial_program
    /\ ctl = "returned"
    /\ result = Ok(I64(120))
    /\ pc = 9

(***************************************************************************)
(* C4: a conditional jump at index i whose predicate on the flag is true  *)
(* and whose target is inside the store sets PC to the target; one whose  *)
(* predicate is false leaves PC at i+1 and raises no error, whatever its  *)
(* target; the conditional-skip sample returns 7.                          *)
(***************************************************************************)
C4_ConditionalJumps ==
    /\ [][\A op \in ConditionalJumps :
            Fetching(op) =>
                IF JumpPredicate(op, cmp_flag)
                THEN Current.addr < Len(memory)
                        => (pc' = Current.addr /\ ctl' = "running")
                ELSE pc' = pc + 1 /\ ctl' = "running" /\ result' = result]_vars
    /\ []((memory = ConditionalSkip /\ ctl = "returned") => result = Ok(I64(7)))

C4_Witness ==
    ctl = "returned" /\ memory = ConditionalSkip /\ result = Ok(I64(7))

(***************************************************************************)
(* C5: JMP, and a conditional jump whose predicate is true, fails with    *)
(* InvalidProgramCounter when its target is at or past the end of the     *)
(* store, leaving PC as fetch advanced it; a target of |store| - 1 is     *)
(* taken, so that the last instruction is the next one fetched.            *)
(***************************************************************************)
Jumping ==
    \/ Fetching("Jmp")
    \/ \E op \in ConditionalJumps : Fetching(op) /\ JumpPredicate(op, cmp_flag)

C5_JumpRange ==
    [][Jumping =>
        /\ Current.addr >= Len(memory)
              => /\ ctl' = "returned"
                 /\ result' = Err("InvalidProgramCounter")
                 /\ pc' = pc + 1
        /\ Current.addr = Len(memory) - 1
              => /\ ctl' = "running"
                 /\ pc' = Len(memory) - 1
                 /\ fetch'.some /\ fetch'.instruction = memory[Len(memory)]]_vars

C5_Witness ==
    /\ ctl = "returned"
    /\ result = Err("InvalidProgramCounter")
    /\ Last.addr = Len(memory)

(***************************************************************************)
(* C6: in every state reached by load_program and run calls, the program  *)
(* counter is between 0 and the length of the store, also as fetch leaves *)
(* it, and fetch reads the store inside it.                                *)
(***************************************************************************)
C6_PcInRange ==
    /\ 0 <= pc /\ pc <= Len(memory)
    /\ 0 <= fetch.pc /\ fetch.pc <= Len(memory)
    /\ fetch.some => (pc + 1) \in DOMAIN memory

C6_Witness ==
    ctl = "returned" /\ result.tag = "Err" /\ Len(memory) > 0 /\ pc = Len(memory)

(***************************************************************************)
(* C7: an instruction with a register index of 10 or more, as destination *)
(* or as a register source, fails with InvalidRegister and writes no      *)
(* register.                                                               *)
(***************************************************************************)
C7_InvalidRegister ==
    [][\A op \in RegisterOps :
          (/\ Fetching(op)
           /\ (Current.dest >= 10 \/ ~Resolves(Current.src)))
             => /\ ctl' = "returned"
                /\ result' = Err("InvalidRegister")
                /\ registers' = registers]_vars

C7_Witness ==
    /\ ctl = "returned"
    /\ result = Err("InvalidRegister")
    /\ Last.op = "Div"
    /\ Last.dest = 0
    /\ Last.src = Register(10)

(***************************************************************************)
(* C8: DIV with a valid destination and a source that resolves to 0, an   *)
(* immediate or a register (the destination included), fails with        *)
(* DivisionByZero and leaves the destination register unchanged.           *)
(***************************************************************************)
C8_DivisionByZero ==
    [][(/\ Fetching("Div")
        /\ Current.dest < 10
        /\ Resolves(Current.src)
        /\ Val(Current.src) = I64(0))
          => /\ ctl' = "returned"
             /\ result' = Err("DivisionByZero")
             /\ registers' = registers]_vars

C8_Witness ==
    /\ ctl = "returned"
    /\ result = Err("DivisionByZero")
    /\ Last = Div(0, Register(0))

(***************************************************************************)
(* C9: when run() returns an error raised by the instruction at index i,  *)
(* the registers and the flag are as they were before that instruction    *)
(* and PC = i+1; the division-by-zero sample ends with DivisionByZero,    *)
(* R0 = 10, R1 = 0 and PC = 3.                                             *)
(***************************************************************************)
C9_StateAtError ==
    /\ [][(ctl = "running" /\ ctl' = "returned" /\ result'.tag = "Err")
            => /\ registers' = registers
               /\ cmp_flag' = cmp_flag
               /\ pc' = pc + 1]_vars
    /\ [][(memory = DivideByZero /\ ctl = "running" /\ pc = 2)
            => /\ ctl' = "returned"
               /\ result' = Err("DivisionByZero")
               /\ registers'[0] = I64(10)
               /\ registers'[1] = I64(0)
               /\ pc' = 3]_vars

C9_Witness ==
    /\ ctl = "returned"
    /\ memory = DivideByZero
    /\ result = Err("DivisionByZero")
    /\ registers[0] = I64(10)
    /\ pc = 3

(***************************************************************************)
(* C10: load_program(p), in any state, sets the store to p and PC to 0    *)
(* and leaves the registers and the flag unchanged; the run() that        *)
(* follows starts at index 0 with those registers and that flag.           *)
(***************************************************************************)
C10_LoadProgram ==
    [][/\ ctl' = "loaded"
          => /\ memory' = loaded'
             /\ pc' = 0
             /\ registers' = registers
             /\ cmp_flag' = cmp_flag
       /\ (ctl = "loaded" /\ ctl' = "running")
          => /\ pc' = 0
             /\ memory' = loaded
             /\ registers' = registers
             /\ cmp_flag' = cmp_flag]_vars

C10_Witness ==
    /\ ctl = "loaded"
    /\ result.tag = "Err"
    /\ registers[0] # I64(0)
    /\ cmp_flag # 0

(***************************************************************************)
(* C11: a MOV, ADD, SUB, MUL or DIV at index i that executes successfully *)
(* changes no register other than its destination, leaves the comparison  *)
(* flag and the instruction store as they were and sets PC to i + 1; a    *)
(* successful CMP changes no register, leaves the store as it was and     *)
(* sets PC to i + 1.                                                       *)
(***************************************************************************)
Arithmetic == {"Mov", "Add", "Sub", "Mul", "Div"}

C11_FrameOfRegisterOps ==
    [][/\ \A op \in Arithmetic :
             (Fetching(op) /\ ctl' = "running")
                => /\ \A r \in 0 .. 9 :
                         r # Current.dest => registers'[r] = registers[r]
                   /\ cmp_flag' = cmp_flag
                   /\ memory' = memory
                   /\ pc' = pc + 1
       /\ (Fetching("Cmp") /\ ctl' = "running")
             => /\ registers' = registers
                /\ memory' = memory
                /\ pc' = pc + 1]_vars

C11_Witness ==
    /\ ctl = "running"
    /\ pc = 3
    /\ Last = Mul(9, Register(0))
    /\ registers[0] = I64(-7)
    /\ registers[9] = I64(-14)
    /\ cmp_flag = 0

(***************************************************************************)
(* C12: for every destination value and every resolved source value, ADD, *)
(* SUB and MUL store the exact result reduced modulo 2^64 and the run     *)
(* goes on: it neither fails nor aborts because the exact result is out   *)
(* of the i64 range.                                                       *)
(***************************************************************************)
Exact(op, a, b) ==
    CASE op = "Add" -> WAdd[Widen[a], Widen[b]]
      [] op = "Sub" -> WSub[Widen[a], Widen[b]]
      [] op = "Mul" -> WMul[Widen[a], Widen[b]]

C12_WrapAround ==
    [][\A op \in {"Add", "Sub", "Mul"} :
          (/\ Fetching(op)
           /\ Current.dest < 10
           /\ Resolves(Current.src))
             => /\ ctl' = "running"
                /\ registers'[Current.dest] =
                      Narrow[Exact(op, registers[Current.dest],
                                   Val(Current.src))]]_vars

(***************************************************************************)
(* C13: a CMP whose register holds i64::MIN and whose source resolves to  *)
(* a positive value, so that the exact difference lies below the i64      *)
(* range, completes (the run goes on) and leaves the comparison flag      *)
(* negative.                                                               *)
(***************************************************************************)
C13_CmpAtI64Min ==
    [][(/\ Fetching("Cmp")
        /\ Current.dest < 10
        /\ Resolves(Current.src)
        /\ registers[Current.dest] = I64_MIN
        /\ WLt[WSub[Widen[I64_MIN], Widen[Val(Current.src)]], Widen[I64_MIN]])
          => /\ ctl' = "running"
             /\ cmp_flag' < 0]_vars

(***************************************************************************)
(* C14: once a run() has ended, by HALT, by a fetch at the end of the     *)
(* store or by a failing instruction, a later run() with no load_program  *)
(* in between executes nothing: no step of such a run changes the         *)
(* registers, the comparison flag or PC.                                   *)
(***************************************************************************)
C14_HaltedIsAbsorbing ==
    [][(ctl = "running" /\ resumed)
          => /\ registers' = registers
             /\ cmp_flag' = cmp_flag
             /\ pc' = pc]_vars

(***************************************************************************)
(* C15: executing HALT at index i ends the current run() at once with     *)
(* Ok: the registers and the comparison flag stay as they were just       *)
(* before HALT, PC is i + 1, and the value returned is register 0 as it   *)
(* was before HALT, whatever instructions follow index i.                 *)
(***************************************************************************)
C15_HaltStopsRun ==
    [][Fetching("Halt")
          => /\ ctl' = "returned"
             /\ result' = Ok(registers[0])
             /\ registers' = registers
             /\ cmp_flag' = cmp_flag
             /\ pc' = pc + 1]_vars

C15_Witness ==
    /\ ctl = "returned"
    /\ ~resumed
    /\ memory = CompareLeftBack
    /\ pc = 2
    /\ pc < Len(memory)
    /\ registers[0] = I64(0)
    /\ result = Ok(I64(0))

(***************************************************************************)
(* C16: for a destination in 0..9 and a resolved divisor d other than 0   *)
(* (leaving out i64::MIN divided by -1), DIV goes on and stores the       *)
(* quotient n / d rounded toward zero: the remainder n - q * d is smaller *)
(* in magnitude than d and, unless it is 0, has the sign of n.  So        *)
(* -7 / 2 = -3 and 7 / -2 = -3.                                            *)
(***************************************************************************)
Remainder(n, d, q) == WSub[Widen[n], WMul[Widen[q], Widen[d]]]

C16_DivTruncates ==
    [][(/\ Fetching("Div")
        /\ Current.dest < 10
        /\ Resolves(Current.src)
        /\ Val(Current.src) # I64(0)
        /\ ~(registers[Current.dest] = I64_MIN /\ Val(Current.src) = I64(-1)))
          => LET n == registers[Current.dest]
                 d == Val(Current.src)
                 q == registers'[Current.dest]
                 r == Remainder(n, d, q)
             IN  /\ ctl' = "running"
                 /\ WLt[WAbs[r], WAbs[Widen[d]]]
                 /\ r = WZero \/ IsNeg[r] = IsNeg[n]
                 /\ (n = I64(-7) /\ d = I64(2)) => q = I64(-3)
                 /\ (n = I64(7) /\ d = I64(-2)) => q = I64(-3)]_vars

C16_Witness ==
    /\ ctl = "running"
    /\ pc = 2
    /\ memory = << Mov(0, Immediate(I64(7))), Div(0, Immediate(I64(-2))) >>
    /\ registers[0] = I64(-3)

(***************************************************************************)
(* C17: DIV makes its checks in the order destination index, source       *)
(* operand, zero divisor.  A DIV whose destination index is 10 or more    *)
(* fails with InvalidRegister even when its source is Immediate(0); a DIV *)
(* with a destination in 0..9 and a source Register(j), j >= 10, fails    *)
(* with InvalidRegister whatever the registers hold; and DivisionByZero   *)
(* is returned only when both indices passed.  The registers are left as  *)
(* they were.                                                              *)
(***************************************************************************)
C17_DivCheckOrder ==
    [][Fetching("Div")
          => /\ (Current.dest >= 10 \/ ~Resolves(Current.src))
                   => /\ ctl' = "returned"
                      /\ result' = Err("InvalidRegister")
                      /\ registers' = registers
             /\ result' = Err("DivisionByZero")
                   => Current.dest < 10 /\ Resolves(Current.src)]_vars

C17_Witness ==
    /\ ctl = "returned"
    /\ pc = 3
    /\ Last = Div(10, Immediate(I64(0)))
    /\ result = Err("InvalidRegister")

(***************************************************************************)
(* C18: run() returns only on a turn of its loop that executes HALT, that *)
(* finds PC at the end of the store, or whose instruction fails.  The     *)
(* program [JMP(0)] does none of these: while it is the store, PC is 0    *)
(* (1 between the fetch and the jump) and run() has not returned or       *)
(* aborted.                                                                *)
(***************************************************************************)
C18_RunReturnsOnlyOnHaltEndOrError ==
    /\ [][(ctl = "running" /\ ctl' = "returned")
             => \/ Fetching("Halt") /\ result'.tag = "Ok"
                \/ pc = Len(memory) /\ result'.tag = "Ok"
                \/ pc < Len(memory) /\ result'.tag = "Err"]_vars
    /\ [](memory = JumpForever
             => /\ ctl \in {"loaded", "running"}
                /\ pc \in {0, 1}
                /\ ctl = "running" => fetch.pc \in {0, 1})

C18_Witness ==
    /\ memory = JumpForever
    /\ ctl = "running"
    /\ pc = 0
    /\ executed = MaxSteps

(***************************************************************************)
(* C19: a JE(addr) with addr < |store| executed directly after a          *)
(* successful CMP(r, src) is taken (PC becomes addr) if and only if       *)
(* registers[r] = val(src), and a JNE in that position if and only if     *)
(* registers[r] # val(src).  Stated where addr differs from the index     *)
(* after the jump, so that taking the jump shows in PC.                   *)
(***************************************************************************)
AfterCmp(op) ==
    /\ Fetching(op)
    /\ pc >= 1
    /\ Last.op = "Cmp"
    /\ Current.addr < Len(memory)
    /\ Current.addr # pc + 1

C19_EqualityBranches ==
    [][/\ AfterCmp("Je")
          => (pc' = Current.addr <=> registers[Last.dest] = Val(Last.src))
       /\ AfterCmp("Jne")
          => (pc' = Current.addr <=> registers[Last.dest] # Val(Last.src))]_vars

(***************************************************************************)
(* C20: when every jump of the loaded program has a target greater than   *)
(* its own index, each executed instruction leaves PC greater than it     *)
(* was, a run() executes at most |store| instructions, and every run()    *)
(* returns, whatever the registers and the flag held when it was called.  *)
(***************************************************************************)
ForwardOnly(program) ==
    \A i \in 1 .. Len(program) :
        program[i].op \in ({"Jmp"} \cup ConditionalJumps)
            => program[i].addr > i - 1

C20_ForwardJumpsTerminate ==
    /\ [][(ctl = "running" /\ ForwardOnly(memory) /\ pc < Len(memory))
             => pc' > pc]_vars
    /\ []((ForwardOnly(memory) /\ ctl \in {"running", "returned"})
             => executed <= Len(memory))
    /\ (ForwardOnly(memory) /\ ctl = "running") ~> (ctl = "returned")

C20_Witness ==
    /\ ctl = "returned"
    /\ memory = ConditionalSkip
    /\ ForwardOnly(memory)
    /\ executed = Len(memory)
    /\ registers[1] # I64(0)
    /\ result.tag = "Ok"

====
